---------------------------- MODULE Spec2Model ----------------------------
(***************************************************************************)
(* A model of synthesize_projections.py: one call of                       *)
(* synthesize_projection(book_lines, historical_stats, alpha_static,       *)
(* h2h_alpha), executed statement block by statement block.                *)
(*                                                                         *)
(* Numbers.  A float is modelled by the exact value it stands for: a pair  *)
(* <<n, d>> in lowest terms with d > 0.  The three non-finite floats that  *)
(* numpy/pandas arithmetic produces instead of raising are pairs with      *)
(* d = 0: <<1, 0>> is +inf, <<-1, 0>> is -inf and <<0, 0>> is NaN.         *)
(* Binary rounding error of the floats is not modelled.                    *)
(***************************************************************************)
EXTENDS Integers, Sequences, FiniteSets, TLC

----------------------------------------------------------------------------
(* Exact arithmetic on <<n, d>> pairs, following IEEE-754 on the           *)
(* non-finite values.                                                      *)

Abs(n) == IF n < 0 THEN -n ELSE n

Sign(n) == IF n > 0 THEN 1 ELSE IF n < 0 THEN -1 ELSE 0

RECURSIVE GCD(_, _)
GCD(a, b) == IF b = 0 THEN a ELSE GCD(b, a % b)

Norm(n, d) ==
    IF d = 0 THEN <<Sign(n), 0>>
    ELSE LET g == GCD(Abs(n), Abs(d))
             s == Sign(d)
         IN  <<s * (n \div g), s * (d \div g)>>

Num(n) == <<n, 1>>

Zero == Num(0)

One == Num(1)

NaN == <<0, 0>>

PosInf == <<1, 0>>

IsFinite(x) == x[2] # 0

RAdd(x, y) ==
    IF IsFinite(x) /\ IsFinite(y)
    THEN LET g == GCD(x[2], y[2])
         IN  Norm(x[1] * (y[2] \div g) + y[1] * (x[2] \div g), (x[2] \div g) * y[2])
    ELSE IF IsFinite(y) THEN x
    ELSE IF IsFinite(x) THEN y
    ELSE IF x = y THEN x ELSE NaN

RNeg(x) == <<-x[1], x[2]>>

RSub(x, y) == RAdd(x, RNeg(y))

RAbs(x) == <<Abs(x[1]), x[2]>>

RMul(x, y) ==
    IF IsFinite(x) /\ IsFinite(y)
    THEN LET g1 == GCD(Abs(x[1]), y[2])
             g2 == GCD(Abs(y[1]), x[2])
         IN  Norm((x[1] \div g1) * (y[1] \div g2), (x[2] \div g2) * (y[2] \div g1))
    ELSE <<Sign(x[1]) * Sign(y[1]), 0>>

(* 1/x: 1/0 is +inf (the zero of a sum of floats is +0.0), 1/inf is 0. *)
Recip(x) ==
    IF x[1] > 0 THEN <<x[2], x[1]>>
    ELSE IF x[1] < 0 THEN <<-x[2], -x[1]>>
    ELSE IF x[2] = 0 THEN NaN ELSE PosInf

(* numpy/pandas division: x/0 is inf or NaN, never an exception. *)
RDiv(x, y) == RMul(x, Recip(y))

RLess(x, y) == x[1] * y[2] < y[1] * x[2]

RLeq(x, y) == x[1] * y[2] <= y[1] * x[2]

RMin(x, y) == IF RLess(y, x) THEN y ELSE x

(* round(x, 2): to the nearest multiple of 1/100, ties to even; NaN and *)
(* the infinities round to themselves.                                  *)
Round2(x) ==
    IF ~IsFinite(x) THEN x
    ELSE LET ip == x[1] \div x[2]
             fr == x[1] % x[2]
             q  == (fr * 100) \div x[2]
             r  == (fr * 100) % x[2]
             up == \/ 2 * r > x[2]
                   \/ 2 * r = x[2] /\ q % 2 = 1
         IN  Norm(ip * 100 + q + (IF up THEN 1 ELSE 0), 100)

RECURSIVE RSum(_)
RSum(s) == IF s = <<>> THEN Zero ELSE RAdd(s[1], RSum(Tail(s)))

Last(s) == s[Len(s)]

(* dict.get(key, default) *)
Get(d, k, default) == IF k \in DOMAIN d THEN d[k] ELSE default

----------------------------------------------------------------------------
(* Library routines the function calls, modelled by what they compute.     *)

(* pd.to_datetime("YYYY-MM-DD"): a date string, held as <<year, month,     *)
(* day>>, becomes a point on the time line (days since 1970-01-01).        *)
to_datetime(date) ==
    LET y   == IF date[2] <= 2 THEN date[1] - 1 ELSE date[1]
        era == y \div 400
        yoe == y - era * 400
        mp  == (date[2] + 9) % 12
        doy == (153 * mp + 2) \div 5 + date[3] - 1
        doe == yoe * 365 + yoe \div 4 - yoe \div 100 + doy
    IN  era * 146097 + doe - 719468

Perms(n) == {p \in [1..n -> 1..n] : \A i, j \in 1..n : p[i] = p[j] => i = j}


(* The frame left in the order of the input. *)
InputOrder(keys) == {[i \in 1..Len(keys) |-> i]}

(* DataFrame.sort_values(by="Date"): the row orders that leave the keys    *)
(* ascending.  The default sort kind is not stable, so rows with equal     *)
(* keys may come out in either order.                                      *)
SortedOrders(keys) ==
    {p \in Perms(Len(keys)) :
        \A i \in 1..(Len(keys) - 1) : keys[p[i]] <= keys[p[i + 1]]}


(* The smoothing with adjust=False: the fixed-weight recurrence. *)
RECURSIVE EwmMeanUnadjusted(_, _)
EwmMeanUnadjusted(x, alpha) ==
    IF Len(x) <= 1 THEN x
    ELSE LET prev == EwmMeanUnadjusted(SubSeq(x, 1, Len(x) - 1), alpha)
         IN  Append(prev, RAdd(RMul(alpha, x[Len(x)]),
                               RMul(RSub(One, alpha), Last(prev))))

(* Series.ewm(alpha=alpha).mean() with pandas' defaults (adjust=True,      *)
(* min_periods=0): the running weighted average of pandas' ewm kernel,     *)
(* carried as [out, weighted, old_wt] over the first t values.             *)
RECURSIVE EwmFold(_, _, _)
EwmFold(x, alpha, t) ==
    IF t = 1 THEN [out |-> <<x[1]>>, weighted |-> x[1], old_wt |-> One]
    ELSE LET prev   == EwmFold(x, alpha, t - 1)
             new_wt == One
             old_wt == RMul(prev.old_wt, RSub(One, alpha))
             cur    == x[t]
             weighted ==
                 IF prev.weighted # cur
                 THEN RDiv(RAdd(RMul(old_wt, prev.weighted), RMul(new_wt, cur)),
                           RAdd(old_wt, new_wt))
                 ELSE prev.weighted
         IN  [out |-> Append(prev.out, weighted),
              weighted |-> weighted,
              old_wt |-> RAdd(old_wt, new_wt)]

EwmMean(x, alpha) == IF x = <<>> THEN <<>> ELSE EwmFold(x, alpha, Len(x)).out

(* Ascending sort of a sequence of numbers. *)
RECURSIVE Insert(_, _)
Insert(v, s) ==
    IF s = <<>> THEN <<v>>
    ELSE IF RLeq(v, s[1]) THEN <<v>> \o s
    ELSE <<s[1]>> \o Insert(v, Tail(s))

RECURSIVE SortValues(_)
SortValues(s) == IF s = <<>> THEN <<>> ELSE Insert(s[1], SortValues(Tail(s)))

(* Series.median(): the middle value of the sorted values, or the mean of  *)
(* the two middle values when there are evenly many.                       *)
Median(s) ==
    LET sorted == SortValues(s)
        n      == Len(s)
    IN  IF n % 2 = 1 THEN sorted[(n + 1) \div 2]
        ELSE RDiv(RAdd(sorted[n \div 2], sorted[n \div 2 + 1]), Num(2))

(* np.mean of a non-empty list *)
Mean(s) == RDiv(RSum(s), Num(Len(s)))

----------------------------------------------------------------------------
(* Helper function and the expressions of synthesize_projection.           *)


(* The underdog formula applied to every price. *)
ConvertAlwaysUnderdog(odds) == RDiv(Num(100), RAdd(RAbs(odds), Num(100)))

convert_to_prob(odds) ==
    IF RLess(Zero, odds)
    THEN RDiv(Num(100), RAdd(odds, Num(100)))
    ELSE RDiv(RAbs(odds), RAdd(RAbs(odds), Num(100)))


(* The weight without the implied probability. *)
QuoteWeightVolumeOnly(volume, odds) == Num(volume)

(* weight = volume * probability *)
QuoteWeight(volume, odds) == RMul(Num(volume), convert_to_prob(Num(odds)))


(* The most recent smoothed value instead of the median. *)
SeasonLast(smoothed) == Last(smoothed)

(* season_series.ewm(alpha=alpha_static).mean().median() *)
SeasonAggregate(smoothed) == Median(smoothed)


(* An even split between the two trends. *)
EqualTrendWeight(value, total) == <<1, 2>>

(* historical_series / historical_series.sum(), one entry *)
TrendWeight(value, total) == RDiv(value, total)

BookCap == 5

SeasonCap == 10

H2HCap == 3

(* min(1, count / cap) *)
Confidence(count, cap) == RMin(One, RDiv(Num(count), Num(cap)))


(* The confidence used as the weight, without normalising. *)
WeightUnnormalized(confidence, total_confidence) == confidence

(* confidence / total_confidence *)
Weight(confidence, total_confidence) == RDiv(confidence, total_confidence)

----------------------------------------------------------------------------
(* The state of one call.                                                  *)

VARIABLES
    book_lines,          \* argument: sequence of <<line, volume, odds>>
    historical_stats,    \* argument: nested mapping, keys may be absent
    alpha_static,        \* argument
    h2h_alpha,           \* argument
    pc,                  \* the statement block to run next
    season_game_values,  \* locals of synthesize_projection ...
    h2h_values,
    h2h_dates,
    h2h_df,              \* the "Value" column of the date-sorted frame
    h2h_ewm,             \* its "EWMA" column
    h2h_avg,
    season_smoothed,     \* season_series.ewm(...).mean()
    season_ewma,
    idx,                 \* number of book lines the loop has consumed
    probability,
    total_weight,
    weighted_sum,
    weighted_line,
    book_weight,
    season_weight,
    h2h_weight,
    projection,
    outcome,             \* "running", "returned" or "raised"
    result,              \* the returned value
    error                \* the exception raised

args == <<book_lines, historical_stats, alpha_static, h2h_alpha>>

h2h_locals == <<h2h_values, h2h_dates, h2h_df, h2h_ewm, h2h_avg>>

season_locals == <<season_game_values, season_smoothed, season_ewma>>

book_locals == <<idx, probability, total_weight, weighted_sum, weighted_line>>

weight_locals == <<book_weight, season_weight, h2h_weight>>

exit_state == <<projection, outcome, result, error>>

vars == <<args, pc, h2h_locals, season_locals, book_locals, weight_locals, exit_state>>

(* A local not yet assigned. *)
Unset == <<>>

(* Lines 53-56: safe lookups; note the key "Dates". *)
ExtractHistorical ==
    /\ pc = "extract"
    /\ season_game_values' = Get(Get(historical_stats, "Season Games", <<>>), "Value", <<>>)
    /\ h2h_values' = Get(Get(historical_stats, "H2H Games", <<>>), "Value", <<>>)
    /\ h2h_dates' = Get(Get(historical_stats, "H2H Games", <<>>), "Dates", <<>>)
    /\ pc' = "h2h"
    /\ UNCHANGED <<args, h2h_df, h2h_ewm, h2h_avg, season_smoothed, season_ewma,
                   book_locals, weight_locals, exit_state>>

(* Line 60 when the two lists differ in length: pd.DataFrame raises. *)
H2HFrameMismatch ==
    /\ pc = "h2h"
    /\ h2h_values # <<>> /\ h2h_dates # <<>>
    /\ Len(h2h_values) # Len(h2h_dates)
    /\ pc' = "done"
    /\ outcome' = "raised"
    /\ error' = "ValueError"
    /\ UNCHANGED <<args, h2h_locals, season_locals, book_locals, weight_locals,
                   projection, result>>

(* Lines 59-65: frame of (Value, Date), sorted by date, EWMA, last entry. *)
H2HEwma ==
    /\ pc = "h2h"
    /\ h2h_values # <<>> /\ h2h_dates # <<>>
    /\ Len(h2h_values) = Len(h2h_dates)
    /\ \E order \in SortedOrders([i \in 1..Len(h2h_dates) |-> to_datetime(h2h_dates[i])]) :
          LET sorted == [i \in 1..Len(h2h_values) |-> Num(h2h_values[order[i]])]
              ewma   == EwmMean(sorted, h2h_alpha)
          IN  /\ h2h_df' = sorted
              /\ h2h_ewm' = ewma
              /\ h2h_avg' = Last(ewma)
    /\ pc' = "season"
    /\ UNCHANGED <<args, h2h_values, h2h_dates, season_locals, book_locals,
                   weight_locals, exit_state>>

(* Line 67: no usable dates. *)
H2HMean ==
    /\ pc = "h2h"
    /\ ~(h2h_values # <<>> /\ h2h_dates # <<>>)
    /\ h2h_avg' = IF h2h_values # <<>>
                  THEN Mean([i \in 1..Len(h2h_values) |-> Num(h2h_values[i])])
                  ELSE Zero
    /\ pc' = "season"
    /\ UNCHANGED <<args, h2h_values, h2h_dates, h2h_df, h2h_ewm, season_locals,
                   book_locals, weight_locals, exit_state>>

(* Lines 70-74. *)
SeasonEwma ==
    /\ pc = "season"
    /\ IF season_game_values # <<>>
       THEN LET smoothed == EwmMean([i \in 1..Len(season_game_values) |->
                                        Num(season_game_values[i])], alpha_static)
            IN  /\ season_smoothed' = smoothed
                /\ season_ewma' = SeasonAggregate(smoothed)
       ELSE /\ season_smoothed' = season_smoothed
            /\ season_ewma' = Num(Get(historical_stats, "Season Avg", 0))
    /\ pc' = "branch"
    /\ UNCHANGED <<args, season_game_values, h2h_locals, book_locals, weight_locals,
                   exit_state>>

(* Lines 77-87: no book lines; weights are the normalised trend values. *)
NoBookLines ==
    /\ pc = "branch"
    /\ book_lines = <<>>
    /\ LET total == RAdd(season_ewma, h2h_avg)
           w_season == TrendWeight(season_ewma, total)
           w_h2h == TrendWeight(h2h_avg, total)
           p == RAdd(RMul(season_ewma, w_season), RMul(h2h_avg, w_h2h))
       IN  /\ season_weight' = w_season
           /\ h2h_weight' = w_h2h
           /\ projection' = p
           /\ result' = Round2(p)
    /\ outcome' = "returned"
    /\ pc' = "done"
    /\ UNCHANGED <<args, h2h_locals, season_locals, book_locals, book_weight, error>>

(* Lines 90-91. *)
BeginBookLines ==
    /\ pc = "branch"
    /\ book_lines # <<>>
    /\ total_weight' = Zero
    /\ weighted_sum' = Zero
    /\ idx' = 0
    /\ pc' = "loop"
    /\ UNCHANGED <<args, h2h_locals, season_locals, probability, weighted_line,
                   weight_locals, exit_state>>

(* Lines 93-97: one iteration of the loop. *)
BookLineStep ==
    /\ pc = "loop"
    /\ idx < Len(book_lines)
    /\ LET quote  == book_lines[idx + 1]
           weight == QuoteWeight(quote[2], quote[3])
       IN  /\ probability' = convert_to_prob(Num(quote[3]))
           /\ weighted_sum' = RAdd(weighted_sum, RMul(Num(quote[1]), weight))
           /\ total_weight' = RAdd(total_weight, weight)
    /\ idx' = idx + 1
    /\ UNCHANGED <<args, pc, h2h_locals, season_locals, weighted_line, weight_locals,
                   exit_state>>

(* Line 100. *)
WeightedLine ==
    /\ pc = "loop"
    /\ idx = Len(book_lines)
    /\ weighted_line' = IF RLess(Zero, total_weight)
                        THEN RDiv(weighted_sum, total_weight)
                        ELSE Zero
    /\ pc' = "weights"
    /\ UNCHANGED <<args, h2h_locals, season_locals, idx, probability, total_weight,
                   weighted_sum, weight_locals, exit_state>>

(* Lines 103-116. *)
DynamicWeights ==
    /\ pc = "weights"
    /\ LET book_confidence   == Confidence(Len(book_lines), BookCap)
           season_confidence == Confidence(Len(season_game_values), SeasonCap)
           h2h_confidence    == Confidence(Len(h2h_values), H2HCap)
           total_confidence  == RAdd(RAdd(book_confidence, season_confidence),
                                     h2h_confidence)
       IN  /\ book_weight' = Weight(book_confidence, total_confidence)
           /\ season_weight' = Weight(season_confidence, total_confidence)
           /\ h2h_weight' = Weight(h2h_confidence, total_confidence)
    /\ pc' = "final"
    /\ UNCHANGED <<args, h2h_locals, season_locals, book_locals, exit_state>>

(* Lines 119-125. *)
FinalProjection ==
    /\ pc = "final"
    /\ LET p == RAdd(RAdd(RMul(weighted_line, book_weight),
                          RMul(season_ewma, season_weight)),
                     RMul(h2h_avg, h2h_weight))
       IN  /\ projection' = p
           /\ result' = Round2(p)
    /\ outcome' = "returned"
    /\ pc' = "done"
    /\ UNCHANGED <<args, h2h_locals, season_locals, book_locals, weight_locals, error>>

Next ==
    \/ ExtractHistorical
    \/ H2HFrameMismatch
    \/ H2HEwma
    \/ H2HMean
    \/ SeasonEwma
    \/ NoBookLines
    \/ BeginBookLines
    \/ BookLineStep
    \/ WeightedLine
    \/ DynamicWeights
    \/ FinalProjection

----------------------------------------------------------------------------
(* The calls explored: four families of arguments, each varying one part   *)
(* of the input widely and the rest a little.                              *)

MaxQuotes == 2

MaxSeason == 3

MaxH2H == 3

MaxBookCount == 6

MaxSeasonCount == 11

MaxH2HCount == 4

SeqsUpTo(S, n) == UNION {[1..k -> S] : k \in 0..n}

AlphaStaticDefault == <<7, 10>>

H2HAlphaDefault == <<17, 20>>

AlphaSet == {<<1, 2>>, One}

QuoteSet == {20, 50} \X {-1, 0, 2} \X {-200, -100, 0, 100, 200}

(* The quotes that books of several lines are made of. *)
BookQuoteSet ==
    ({20, 50} \X {0, 2} \X {-200, 100}) \cup {<<20, -1, 100>>, <<50, 2, 0>>}

SeasonValueSet == {0, 4, 10}

H2HValueSet == {2, 8}

DateSet == {<<2023, 12, 31>>, <<2024, 2, 29>>, <<2024, 3, 1>>}

OneQuote == << <<50, 1, 100>> >>

(* A mapping from the keys that are present. *)
SeasonGames(values) == "Season Games" :> ("Value" :> values)

SeasonAvg(avg) == "Season Avg" :> avg

H2HGames(values, key, dates) == "H2H Games" :> (("Value" :> values) @@ (key :> dates))

H2HValuesOnly(values) == "H2H Games" :> ("Value" :> values)

NoKeys == <<>>

Call(b, h, as, ah) ==
    /\ book_lines = b
    /\ historical_stats = h
    /\ alpha_static = as
    /\ h2h_alpha = ah

BaseStats ==
    SeasonGames(<<4, 10>>) @@ SeasonAvg(6)
        @@ H2HGames(<<2, 8>>, "Dates", << <<2024, 3, 1>>, <<2023, 12, 31>> >>)

(* The default alphas, on histories of at most two games. *)
BookCalls ==
    \E b \in SeqsUpTo(BookQuoteSet, MaxQuotes) \cup SeqsUpTo(QuoteSet, 1) :
        Call(b, BaseStats, AlphaStaticDefault, H2HAlphaDefault)

DefaultCalls ==
    \E b \in {<<>>, OneQuote},
       s \in SeqsUpTo(SeasonValueSet, 2),
       v \in SeqsUpTo(H2HValueSet, 2),
       d \in SeqsUpTo(DateSet, 2) :
        Call(b, SeasonGames(s) @@ H2HGames(v, "Dates", d),
             AlphaStaticDefault, H2HAlphaDefault)

(* Longer histories, with alphas of small denominator. *)
SeasonCalls ==
    \E b \in {<<>>, OneQuote},
       s \in {NoKeys} \cup {SeasonGames(v) : v \in SeqsUpTo(SeasonValueSet, MaxSeason)},
       a \in {NoKeys} \cup {SeasonAvg(v) : v \in {0, 6, 10, -8}},
       h \in {NoKeys, H2HValuesOnly(<<8>>)},
       as \in AlphaSet :
        Call(b, s @@ a @@ h, as, H2HAlphaDefault)

H2HCalls ==
    \E b \in {<<>>},
       v \in SeqsUpTo(H2HValueSet, MaxH2H),
       d \in SeqsUpTo(DateSet, MaxH2H),
       ah \in AlphaSet :
        Call(b, SeasonGames(<<4, 10>>) @@ H2HGames(v, "Dates", d), One, ah)

(* The auxiliary path's key "Date", which synthesize_projection never reads. *)
DateKeyCalls ==
    \E v \in SeqsUpTo(H2HValueSet, 2), d \in SeqsUpTo(DateSet, 2) :
        Call(<<>>, H2HGames(v, "Date", d), AlphaStaticDefault, H2HAlphaDefault)

(* Histories and books of every length up to and beyond the caps. *)
CountCalls ==
    \E nq \in 0..MaxBookCount, ns \in 0..MaxSeasonCount, nh \in 0..MaxH2HCount :
        Call([i \in 1..nq |-> <<10 * i, 1 + (i % 2), 100>>],
             SeasonGames([i \in 1..ns |-> 5 * (i % 3)])
                 @@ H2HValuesOnly([i \in 1..nh |-> 2 * i]),
             One, One)

Init ==
    /\ \/ BookCalls
       \/ DefaultCalls
       \/ SeasonCalls
       \/ H2HCalls
       \/ DateKeyCalls
       \/ CountCalls
    /\ pc = "extract"
    /\ season_game_values = Unset
    /\ h2h_values = Unset
    /\ h2h_dates = Unset
    /\ h2h_df = Unset
    /\ h2h_ewm = Unset
    /\ h2h_avg = Unset
    /\ season_smoothed = Unset
    /\ season_ewma = Unset
    /\ idx = 0
    /\ probability = Unset
    /\ total_weight = Unset
    /\ weighted_sum = Unset
    /\ weighted_line = Unset
    /\ book_weight = Unset
    /\ season_weight = Unset
    /\ h2h_weight = Unset
    /\ projection = Unset
    /\ outcome = "running"
    /\ result = Unset
    /\ error = ""

Spec == Init /\ [][Next]_vars

----------------------------------------------------------------------------
(* Properties.                                                             *)

Returned == pc = "done" /\ outcome = "returned"

NoQuotesBranch == Returned /\ book_lines = <<>>

(* C1: with no quotes and seasonTrend + h2hTrend = 0 the call returns 0.  *)
(* The code divides by the zero sum and returns NaN (or an infinity).      *)
C1_ZeroSumReturnsZero ==
    (/\ pc = "done"
     /\ book_lines = <<>>
     /\ season_ewma # Unset
     /\ h2h_avg # Unset
     /\ RAdd(season_ewma, h2h_avg) = Zero)
        => (outcome = "returned" /\ result = Zero)

(* C2: every call ends in a defined numeric projection, InvalidOddsError   *)
(* or InvalidQuoteError.  The code also ends in NaN and in ValueError.     *)
C2_OnlyThreeOutcomes ==
    pc = "done" =>
        \/ outcome = "returned" /\ IsFinite(result)
        \/ outcome = "raised" /\ error \in {"InvalidOddsError", "InvalidQuoteError"}

(* C3: a call with a quote of negative volume is rejected with             *)
(* InvalidQuoteError.  The code adds the negative weight and returns.      *)
C3_NegativeVolumeRejected ==
    (pc = "done" /\ \E i \in 1..Len(book_lines) : book_lines[i][2] < 0)
        => (outcome = "raised" /\ error = "InvalidQuoteError")

(* min(1, n / cap), computed from the counts. *)
CapFraction(n, cap) == IF n >= cap THEN One ELSE Norm(n, cap)

(* C4: the three blending weights are confidence/total with confidences    *)
(* min(1, quotes/5), min(1, seasonGames/10), min(1, h2hGames/3); each lies *)
(* in [0, 1], they sum to exactly 1, the total is never 0 where the code   *)
(* divides by it, and the counts (5, 10, 3) give (1/3, 1/3, 1/3).          *)
C4_WeightsNormalized ==
    pc = "final" =>
        LET cb == CapFraction(Len(book_lines), 5)
            cs == CapFraction(Len(season_game_values), 10)
            ch == CapFraction(Len(h2h_values), 3)
            total == RAdd(cb, RAdd(cs, ch))
        IN  /\ total # Zero
            /\ book_weight = RDiv(cb, total)
            /\ season_weight = RDiv(cs, total)
            /\ h2h_weight = RDiv(ch, total)
            /\ \A w \in {book_weight, season_weight, h2h_weight} :
                  IsFinite(w) /\ RLeq(Zero, w) /\ RLeq(w, One)
            /\ RAdd(book_weight, RAdd(season_weight, h2h_weight)) = One
            /\ (Len(book_lines) = 5 /\ Len(season_game_values) = 10 /\ Len(h2h_values) = 3)
                  => /\ book_weight = <<1, 3>>
                     /\ season_weight = <<1, 3>>
                     /\ h2h_weight = <<1, 3>>

C4_Saturated ==
    /\ pc = "final"
    /\ Len(book_lines) = 5 /\ Len(season_game_values) = 10 /\ Len(h2h_values) = 3
    /\ book_weight = <<1, 3>> /\ season_weight = <<1, 3>> /\ h2h_weight = <<1, 3>>

SeasonSeries == [i \in 1..Len(season_game_values) |-> Num(season_game_values[i])]

(* y[0] = x[0], y[t] = alpha*x[t] + (1-alpha)*y[t-1] *)
Recurrence(x, y, alpha) ==
    /\ Len(y) = Len(x)
    /\ y[1] = x[1]
    /\ \A t \in 2..Len(x) :
          y[t] = RAdd(RMul(alpha, x[t]), RMul(RSub(One, alpha), y[t - 1]))

(* C5 as stated: both smoothed sequences obey the fixed-weight recurrence, *)
(* and the H2H trend is alpha*x[last] + (1-alpha)*y[last-1].               *)
C5_FixedWeightRecurrence ==
    /\ (pc = "season" /\ h2h_ewm # Unset) =>
          /\ Recurrence(h2h_df, h2h_ewm, h2h_alpha)
          /\ h2h_avg = Last(h2h_ewm)
    /\ (pc = "branch" /\ season_smoothed # Unset) =>
          Recurrence(SeasonSeries, season_smoothed, alpha_static)

RECURSIVE RPow(_, _)
RPow(b, n) == IF n = 0 THEN One ELSE RMul(b, RPow(b, n - 1))

(* (sum over i < t of (1-alpha)^i * x[t-i]) / (sum over i < t of (1-alpha)^i) *)
AdjustedAverage(x, alpha, t) ==
    LET w(i) == RPow(RSub(One, alpha), i)
    IN  RDiv(RSum([i \in 1..t |-> RMul(w(i - 1), x[t - i + 1])]),
             RSum([i \in 1..t |-> w(i - 1)]))

Adjusted(x, y, alpha) ==
    /\ Len(y) = Len(x)
    /\ \A t \in 1..Len(x) : y[t] = AdjustedAverage(x, alpha, t)
    /\ y[1] = x[1]
    /\ alpha = One => y = x

(* C5 amended: both smoothed sequences are the adjusted (normalised)       *)
(* exponentially weighted average, y[t] = sum_i (1-alpha)^i x[t-i] /       *)
(* sum_i (1-alpha)^i over i = 0..t, with y[0] = x[0] and y = x at alpha =  *)
(* 1; the H2H trend is the last element of that sequence over the          *)
(* date-sorted values.                                                     *)
C5_AdjustedEwma ==
    /\ (pc = "season" /\ h2h_ewm # Unset) =>
          /\ Adjusted(h2h_df, h2h_ewm, h2h_alpha)
          /\ h2h_avg = AdjustedAverage(h2h_df, h2h_alpha, Len(h2h_df))
    /\ (pc = "branch" /\ season_smoothed # Unset) =>
          Adjusted(SeasonSeries, season_smoothed, alpha_static)

C5_SmoothedOffRecurrence ==
    /\ pc = "season" /\ h2h_ewm # Unset
    /\ Len(h2h_df) >= 2
    /\ h2h_alpha # One
    /\ h2h_avg = AdjustedAverage(h2h_df, h2h_alpha, Len(h2h_df))
    /\ ~Recurrence(h2h_df, h2h_ewm, h2h_alpha)

DistinctDates == \A i, j \in 1..Len(h2h_dates) : h2h_dates[i] = h2h_dates[j] => i = j

Earlier(i) == {j \in 1..Len(h2h_dates) : to_datetime(h2h_dates[j]) < to_datetime(h2h_dates[i])}

(* The H2H values by rank of their dates: a function of the set of pairs. *)
Chronological ==
    [k \in 1..Len(h2h_values) |->
        Num(h2h_values[CHOOSE i \in 1..Len(h2h_dates) : Cardinality(Earlier(i)) = k - 1])]

(* The trend the code computes for the pairs taken in the order q. *)
TrendsOfOrder(q) ==
    LET n == Len(h2h_values)
    IN  {Last(EwmMean([i \in 1..n |-> Num(h2h_values[q[order[i]]])], h2h_alpha)) :
            order \in SortedOrders([i \in 1..n |-> to_datetime(h2h_dates[q[i]])])}

(* C6: with values and equally many pairwise-distinct dates, the values    *)
(* are smoothed in ascending date order and the last smoothed element is   *)
(* returned: the value of the latest date comes last whatever its input    *)
(* position, and every permutation of the pairs gives the same trend.      *)
C6_SortedByDate ==
    (pc = "season" /\ h2h_ewm # Unset /\ DistinctDates) =>
        /\ h2h_df = Chronological
        /\ h2h_avg = Last(h2h_ewm)
        /\ \A i \in 1..Len(h2h_dates) :
              Cardinality(Earlier(i)) = Len(h2h_dates) - 1
                  => Last(h2h_df) = Num(h2h_values[i])
        /\ \A q \in Perms(Len(h2h_values)) : TrendsOfOrder(q) = {h2h_avg}

C6_LatestDateFirstInInput ==
    /\ pc = "season" /\ h2h_ewm # Unset /\ DistinctDates
    /\ Len(h2h_values) = 3
    /\ Cardinality(Earlier(1)) = 2
    /\ h2h_values[1] # h2h_values[3]
    /\ Last(h2h_df) = Num(h2h_values[1])
    /\ h2h_alpha # One

NonNegativeVolumes == \A i \in 1..Len(book_lines) : book_lines[i][2] >= 0

QuoteProb(i) == convert_to_prob(Num(book_lines[i][3]))

SumWeights ==
    RSum([i \in 1..Len(book_lines) |-> RMul(Num(book_lines[i][2]), QuoteProb(i))])

SumWeightedLines ==
    RSum([i \in 1..Len(book_lines) |->
            RMul(Num(book_lines[i][1]), RMul(Num(book_lines[i][2]), QuoteProb(i)))])

(* C7: for quotes of non-negative volume the market line is                *)
(* sum(line*volume*prob) / sum(volume*prob) when that sum is positive and  *)
(* 0 otherwise; a single quote of positive weight gives its own line, and  *)
(* [(50, 1, 100)] gives 50.                                                *)
C7_WeightedLine ==
    (pc = "weights" /\ NonNegativeVolumes) =>
        /\ weighted_line = IF RLess(Zero, SumWeights)
                           THEN RDiv(SumWeightedLines, SumWeights)
                           ELSE Zero
        /\ (Len(book_lines) = 1 /\ RLess(Zero, SumWeights))
              => weighted_line = Num(book_lines[1][1])
        /\ book_lines = << <<50, 1, 100>> >> => weighted_line = Num(50)

C7_TwoQuotesBlended ==
    /\ pc = "weights" /\ NonNegativeVolumes
    /\ Len(book_lines) = 2
    /\ book_lines[1][1] # book_lines[2][1]
    /\ QuoteProb(1) # QuoteProb(2)
    /\ RLess(Zero, SumWeights)
    /\ weighted_line \notin {Num(book_lines[1][1]), Num(book_lines[2][1])}

(* C8: with no quotes and seasonTrend + h2hTrend # 0 the weights are       *)
(* seasonTrend/(sum) and h2hTrend/(sum), whatever the numbers of games;    *)
(* the projection before rounding is seasonTrend*w_season + h2hTrend*w_h2h *)
(* = (seasonTrend^2 + h2hTrend^2)/(sum); a trend of 0 gets weight 0 and    *)
(* the projection is the other trend.                                      *)
C8_TrendWeights ==
    (NoQuotesBranch /\ RAdd(season_ewma, h2h_avg) # Zero) =>
        LET total == RAdd(season_ewma, h2h_avg)
        IN  /\ season_weight = RDiv(season_ewma, total)
            /\ h2h_weight = RDiv(h2h_avg, total)
            /\ RAdd(season_weight, h2h_weight) = One
            /\ projection = RDiv(RAdd(RMul(season_ewma, season_ewma),
                                      RMul(h2h_avg, h2h_avg)), total)
            /\ result = Round2(projection)
            /\ h2h_avg = Zero => (h2h_weight = Zero /\ projection = season_ewma)
            /\ season_ewma = Zero => (season_weight = Zero /\ projection = h2h_avg)

C8_SeasonTenH2HZero ==
    /\ NoQuotesBranch
    /\ season_ewma = Num(10)
    /\ h2h_avg = Zero
    /\ result = Num(10)

LastOdds == book_lines[idx][3]

(* C9 as stated: convert gives 1/2 at 100, 1/2 at -100, 1/3 at 200, 2/3 at *)
(* -200 and 1/2 at 0.                                                      *)
C9_OddsTableHalfAtZero ==
    (pc = "loop" /\ idx >= 1) =>
        /\ LastOdds = 100 => probability = <<1, 2>>
        /\ LastOdds = -100 => probability = <<1, 2>>
        /\ LastOdds = 200 => probability = <<1, 3>>
        /\ LastOdds = -200 => probability = <<2, 3>>
        /\ LastOdds = 0 => probability = <<1, 2>>

(* C9 amended: convert gives 1/2 at 100, 1/2 at -100, 1/3 at 200, 2/3 at   *)
(* -200, and 0 at odds exactly 0 (the favorite-side formula |0|/(|0|+100)).*)
C9_OddsTable ==
    (pc = "loop" /\ idx >= 1) =>
        /\ LastOdds = 100 => probability = <<1, 2>>
        /\ LastOdds = -100 => probability = <<1, 2>>
        /\ LastOdds = 200 => probability = <<1, 3>>
        /\ LastOdds = -200 => probability = <<2, 3>>
        /\ LastOdds = 0 => probability = Zero

C9_ZeroOddsConverted ==
    /\ pc = "loop" /\ idx >= 1
    /\ LastOdds = 0
    /\ probability = Zero

(* The k-th smallest entry of s. *)
OrderStatistic(s, k) ==
    CHOOSE v \in {s[i] : i \in 1..Len(s)} :
        /\ Cardinality({i \in 1..Len(s) : RLess(s[i], v)}) < k
        /\ Cardinality({i \in 1..Len(s) : RLeq(s[i], v)}) >= k

MiddleValue(s) ==
    IF Len(s) % 2 = 1 THEN OrderStatistic(s, (Len(s) + 1) \div 2)
    ELSE RDiv(RAdd(OrderStatistic(s, Len(s) \div 2),
                   OrderStatistic(s, Len(s) \div 2 + 1)), Num(2))

(* C10: the season trend is the "Season Avg" fallback (0 when absent) when *)
(* the season values are empty or absent, and otherwise the median of the  *)
(* whole smoothed season sequence (the mean of the two middle values when  *)
(* there are evenly many).                                                 *)
C10_SeasonTrend ==
    pc = "branch" =>
        IF "Season Games" \in DOMAIN historical_stats
              /\ historical_stats["Season Games"]["Value"] # <<>>
        THEN /\ season_game_values = historical_stats["Season Games"]["Value"]
             /\ season_smoothed = EwmMean(SeasonSeries, alpha_static)
             /\ season_ewma = MiddleValue(season_smoothed)
        ELSE IF "Season Avg" \in DOMAIN historical_stats
             THEN season_ewma = Num(historical_stats["Season Avg"])
             ELSE season_ewma = Zero

C10_MedianNotLastNotFallback ==
    /\ pc = "branch"
    /\ Len(season_game_values) = 2
    /\ "Season Avg" \in DOMAIN historical_stats
    /\ season_ewma # Last(season_smoothed)
    /\ season_ewma # Num(historical_stats["Season Avg"])
    /\ season_ewma = RDiv(RAdd(season_smoothed[1], season_smoothed[2]), Num(2))

=============================================================================
